---- MODULE Spec2Model ----
(***************************************************************************)
(* setup.py of async-aws-ip-rotator: the script locates its own directory, *)
(* reads README.md from it and calls setuptools.setup() once with literal  *)
(* metadata.  The metadata it registers is then evaluated by an installer: *)
(* Requires-Python against a runtime, install_requires against candidate   *)
(* releases.  Text is modelled as sequences of one-character strings so    *)
(* that requirement and version parsing is computed, not assumed.          *)
(***************************************************************************)
EXTENDS Integers, Sequences, FiniteSets, TLC

VARIABLES fs, pkgs, cwd, encoding, setuptoolsAvailable,
          pc, location, README, calls, io, error, lastCheck

vars == <<fs, pkgs, cwd, encoding, setuptoolsAvailable,
          pc, location, README, calls, io, error, lastCheck>>

env == <<fs, pkgs, cwd, encoding, setuptoolsAvailable>>

(* ------------------------------ bounds -------------------------------- *)

\* runtimes 2.0 .. 2.MaxMinor and 3.0 .. 3.MaxMinor are offered to the installer
MaxMinor == 11

(* ------------------------- the environment ---------------------------- *)

\* __file__ of the running script, as path components
ScriptFile == <<"proj", "setup.py">>

ScriptDir == <<"proj">>

OtherDir == <<"work">>

Dirs == {ScriptDir, OtherDir}

Join(dir, name) == Append(dir, name)

ReadmePaths == {Join(d, "README.md") : d \in Dirs}

Absent == [exists |-> FALSE, bytes |-> <<>>]

File(bytes) == [exists |-> TRUE, bytes |-> bytes]

\* file contents on disk: plain text, the three newline conventions, an
\* empty file and a byte that is not valid UTF-8
ReadmeSamples ==
  { Absent,
    File(<<>>),
    File(<<"a">>),
    File(<<"a", "LF", "a">>),
    File(<<"a", "CR", "LF">>),
    File(<<"CR", "a">>),
    File(<<"a", "x80">>) }

Encodings == {"utf-8", "latin-1"}

PackageDirs == {"async_aws_ip_rotator"}

(* ----------------------- pathlib: lines 4 and 5 ----------------------- *)

\* a mutant of Parent: the directory the build is started from
Parent_Cwd(path) == cwd

\* pathlib.Path(p).parent
Parent(path) == SubSeq(path, 1, Len(path) - 1)

DecodeByte(b, enc) == IF b = "x80" THEN "U+0080" ELSE b

Decodable(bytes, enc) ==
  \A i \in 1..Len(bytes) : bytes[i] = "x80" => enc = "latin-1"

Decode(bytes, enc) == [i \in 1..Len(bytes) |-> DecodeByte(bytes[i], enc)]

\* text mode, newline=None: "\r\n" and a lone "\r" are read as "\n"
RECURSIVE TranslateNewlines(_)
TranslateNewlines(s) ==
  IF s = <<>> THEN <<>>
  ELSE IF Head(s) = "CR"
       THEN IF Len(s) >= 2 /\ s[2] = "LF"
            THEN <<"LF">> \o TranslateNewlines(Tail(Tail(s)))
            ELSE <<"LF">> \o TranslateNewlines(Tail(s))
       ELSE <<Head(s)>> \o TranslateNewlines(Tail(s))

\* a mutant of ReadText: a missing or undecodable file reads as empty text
ReadText_Lenient(file, enc) ==
  IF file.exists /\ Decodable(file.bytes, enc)
  THEN [ok |-> TRUE, err |-> "none",
        text |-> TranslateNewlines(Decode(file.bytes, enc))]
  ELSE [ok |-> TRUE, err |-> "none", text |-> <<>>]

\* Path.read_text() with the locale's encoding
ReadText(file, enc) ==
  IF ~file.exists
  THEN [ok |-> FALSE, err |-> "FileNotFoundError", text |-> <<>>]
  ELSE IF ~Decodable(file.bytes, enc)
  THEN [ok |-> FALSE, err |-> "UnicodeDecodeError", text |-> <<>>]
  ELSE [ok |-> TRUE, err |-> "none",
        text |-> TranslateNewlines(Decode(file.bytes, enc))]

Unset == [ok |-> FALSE, err |-> "none", text |-> <<>>]

\* a mutant of AfterRead: the failed read is swallowed and the script goes on
AfterRead_Swallow(r) == "setup"

\* an exception raised at line 5 leaves the module; nothing after it runs
AfterRead(r) == IF r.ok THEN "setup" ELSE "error"

(* -------------------- the literals of the setup() call ---------------- *)

PackageName == "async-aws-ip-rotator"

\* a mutant of PackageVersion
PackageVersion_Bumped == "1.0.1"

PackageVersion == "1.0.0"

Description == "Async IP rotation using AWS API Gateway with httpx support"

ContentType == "text/markdown"

Author == "Zahid Hussain"

AuthorEmail == "zahidhussain.a2l@gmail.com"

InstallRequires ==
  << <<"h","t","t","p","x",">","=","0",".","2","4",".","0">>,
     <<"a","i","o","b","o","t","o","3",">","=","1","1",".","0",".","0">>,
     <<"b","o","t","o","3">>,
     <<"b","o","t","o","c","o","r","e">> >>

\* mutants of PythonRequires
PythonRequires_36 == <<">","=","3",".","6">>

PythonRequires_38 == <<">","=","3",".","8">>

PythonRequires == <<">","=","3",".","7">>

Classifier(segments, release) == [segments |-> segments, release |-> release]

\* each classifier as its " :: "-separated segments; the release segment of
\* a Python classifier is kept as characters
Classifiers ==
  << Classifier(<<"Programming Language", "Python">>, <<"3">>),
     Classifier(<<"Programming Language", "Python">>, <<"3",".","7">>),
     Classifier(<<"Programming Language", "Python">>, <<"3",".","8">>),
     Classifier(<<"Programming Language", "Python">>, <<"3",".","9">>),
     Classifier(<<"Programming Language", "Python">>, <<"3",".","1","0">>),
     Classifier(<<"Operating System", "OS Independent">>, <<>>),
     Classifier(<<"Framework", "AsyncIO">>, <<>>),
     Classifier(<<"Topic", "Internet", "WWW/HTTP">>, <<>>) >>

\* find_packages(): the packages under the current directory
FindPackages(dir) == pkgs[dir]

\* the keyword arguments of the call at lines 7-34
SetupKwargs(readme, packages) ==
  [ name |-> PackageName,
    version |-> PackageVersion,
    description |-> Description,
    long_description |-> readme,
    long_description_content_type |-> ContentType,
    author |-> Author,
    author_email |-> AuthorEmail,
    packages |-> packages,
    include_package_data |-> TRUE,
    install_requires |-> InstallRequires,
    python_requires |-> PythonRequires,
    classifiers |-> Classifiers ]

(* ------------- requirement and version specifier evaluation ----------- *)

OpChars == {"<", ">", "=", "!", "~"}

DigitVal(c) ==
  CASE c = "0" -> 0 [] c = "1" -> 1 [] c = "2" -> 2 [] c = "3" -> 3
    [] c = "4" -> 4 [] c = "5" -> 5 [] c = "6" -> 6 [] c = "7" -> 7
    [] c = "8" -> 8 [] c = "9" -> 9

\* the release segment "N.N.N" as a tuple of numbers
RECURSIVE ParseReleaseFrom(_, _, _)
ParseReleaseFrom(s, cur, acc) ==
  IF s = <<>> THEN Append(acc, cur)
  ELSE IF Head(s) = "." THEN ParseReleaseFrom(Tail(s), 0, Append(acc, cur))
  ELSE ParseReleaseFrom(Tail(s), cur * 10 + DigitVal(Head(s)), acc)

ParseRelease(s) == IF s = <<>> THEN <<>> ELSE ParseReleaseFrom(s, 0, <<>>)

\* the length of the longest prefix of s whose characters are (member) or are not in set
RECURSIVE PrefixLen(_, _, _)
PrefixLen(s, set, member) ==
  IF s = <<>> \/ ((Head(s) \in set) # member) THEN 0
  ELSE 1 + PrefixLen(Tail(s), set, member)

\* ">=3.7" -> [op |-> ">=", release |-> <<3, 7>>]; "" -> no constraint
ParseSpecifier(s) ==
  LET n == PrefixLen(s, OpChars, TRUE)
  IN [op |-> SubSeq(s, 1, n), release |-> ParseRelease(SubSeq(s, n + 1, Len(s)))]

\* "httpx>=0.24.0" -> the name and the specifier that follows it
ParseRequirement(s) ==
  LET n == PrefixLen(s, OpChars, FALSE)
  IN [name |-> SubSeq(s, 1, n), spec |-> ParseSpecifier(SubSeq(s, n + 1, Len(s)))]

Component(r, i) == IF i <= Len(r) THEN r[i] ELSE 0

Max(a, b) == IF a >= b THEN a ELSE b

\* releases compare numerically, component by component, the shorter one
\* padded with zeros: -1, 0 or 1
RECURSIVE CompareFrom(_, _, _)
CompareFrom(a, b, i) ==
  IF i > Max(Len(a), Len(b)) THEN 0
  ELSE IF Component(a, i) < Component(b, i) THEN -1
  ELSE IF Component(a, i) > Component(b, i) THEN 1
  ELSE CompareFrom(a, b, i + 1)

CompareRelease(a, b) == CompareFrom(a, b, 1)

\* a mutant of SatisfiesSpecifier: ">=" taken as strictly greater
SatisfiesSpecifier_Strict(spec, v) ==
  IF spec.op = <<>> THEN TRUE
  ELSE IF spec.op = <<">", "=">> THEN CompareRelease(v, spec.release) > 0
  ELSE FALSE

\* whether release v satisfies the specifier; only the operators the
\* descriptor uses (none, and ">=") are evaluated
SatisfiesSpecifier(spec, v) ==
  IF spec.op = <<>> THEN TRUE
  ELSE IF spec.op = <<">", "=">> THEN CompareRelease(v, spec.release) >= 0
  ELSE FALSE

\* a candidate release of a dependency is accepted when every declared
\* requirement of that name admits it
AcceptsDependency(requires, name, v) ==
  \A i \in 1..Len(requires) :
    LET r == ParseRequirement(requires[i])
    IN r.name = name => SatisfiesSpecifier(r.spec, v)

AcceptsRuntime(requires, v) == SatisfiesSpecifier(ParseSpecifier(requires), v)

\* the minor versions 3.x named by "Programming Language :: Python :: 3.x"
ClassifiedMinors(classifiers) ==
  { ParseRelease(classifiers[i].release)[2] :
      i \in { j \in 1..Len(classifiers) :
                /\ classifiers[j].segments = <<"Programming Language", "Python">>
                /\ Len(ParseRelease(classifiers[j].release)) = 2
                /\ ParseRelease(classifiers[j].release)[1] = 3 } }

(* ----------------------- what the installer offers -------------------- *)

DependencyNames ==
  { <<"h","t","t","p","x">>, <<"a","i","o","b","o","t","o","3">>,
    <<"b","o","t","o","3">>, <<"b","o","t","o","c","o","r","e">> }

DependencyVersions ==
  { <<a, b, c>> : a \in {0, 10, 11, 12}, b \in {0, 9, 24, 25}, c \in {0, 1} }

RuntimeVersions ==
  { <<a, b, c>> : a \in {2, 3}, b \in 0..MaxMinor, c \in {0, 5} }

NoCheck == [kind |-> "none", name |-> <<>>, version |-> <<>>, accepted |-> FALSE]

(* ------------------------------ the run ------------------------------- *)

Init ==
  /\ fs \in [ReadmePaths -> ReadmeSamples]
  /\ pkgs \in [Dirs -> SUBSET PackageDirs]
  /\ cwd \in Dirs
  /\ encoding \in Encodings
  /\ setuptoolsAvailable \in BOOLEAN
  /\ pc = "import"
  /\ location = <<>>
  /\ README = Unset
  /\ calls = <<>>
  /\ io = <<>>
  /\ error = "none"
  /\ lastCheck = NoCheck

\* lines 1-2: import pathlib; from setuptools import setup, find_packages
Import ==
  /\ pc = "import"
  /\ IF setuptoolsAvailable
     THEN pc' = "locate" /\ error' = error
     ELSE pc' = "error" /\ error' = "ModuleNotFoundError"
  /\ UNCHANGED <<env, location, README, calls, io, lastCheck>>

\* line 4: location = pathlib.Path(__file__).parent
Locate ==
  /\ pc = "locate"
  /\ location' = Parent(ScriptFile)
  /\ pc' = "read"
  /\ UNCHANGED <<env, README, calls, io, error, lastCheck>>

\* line 5: README = (location / "README.md").read_text()
ReadReadme ==
  /\ pc = "read"
  /\ LET path == Join(location, "README.md")
         r == ReadText(fs[path], encoding)
     IN /\ io' = Append(io, [op |-> "read", path |-> path])
        /\ README' = IF r.ok THEN r ELSE README
        /\ error' = r.err
        /\ pc' = AfterRead(r)
  /\ UNCHANGED <<env, location, calls, lastCheck>>

\* lines 7-34: the arguments are evaluated (find_packages() scans the
\* current directory), then setup() is called with them
CallSetup ==
  /\ pc = "setup"
  /\ io' = Append(io, [op |-> "scan", path |-> cwd])
  /\ calls' = Append(calls, SetupKwargs(README.text, FindPackages(cwd)))
  /\ pc' = "done"
  /\ UNCHANGED <<env, location, README, error, lastCheck>>

\* the installer evaluates the registered python_requires for the runtime
\* it runs on; one evaluation is observed per run
CheckRuntime ==
  /\ pc = "done"
  /\ lastCheck = NoCheck
  /\ \E v \in RuntimeVersions :
       lastCheck' = [kind |-> "runtime", name |-> <<>>, version |-> v,
                     accepted |-> AcceptsRuntime(calls[1].python_requires, v)]
  /\ UNCHANGED <<env, pc, location, README, calls, io, error>>

\* the installer evaluates the registered install_requires for a candidate
\* release of one dependency
CheckDependency ==
  /\ pc = "done"
  /\ lastCheck = NoCheck
  /\ \E n \in DependencyNames, v \in DependencyVersions :
       lastCheck' = [kind |-> "dependency", name |-> n, version |-> v,
                     accepted |-> AcceptsDependency(calls[1].install_requires, n, v)]
  /\ UNCHANGED <<env, pc, location, README, calls, io, error>>

Next ==
  \/ Import
  \/ Locate
  \/ ReadReadme
  \/ CallSetup
  \/ CheckRuntime
  \/ CheckDependency

Spec == Init /\ [][Next]_vars

TypeOK ==
  /\ pc \in {"import", "locate", "read", "setup", "done", "error"}
  /\ error \in {"none", "ModuleNotFoundError", "FileNotFoundError", "UnicodeDecodeError"}
  /\ Len(calls) <= 1

(* ------------------------------ the claims ---------------------------- *)

ScriptReadme == Join(ScriptDir, "README.md")

ReadmeReadable ==
  fs[ScriptReadme].exists /\ Decodable(fs[ScriptReadme].bytes, encoding)

ReadErrors == {"FileNotFoundError", "UnicodeDecodeError"}

Httpx == <<"h","t","t","p","x">>

Aioboto3 == <<"a","i","o","b","o","t","o","3">>

Boto3 == <<"b","o","t","o","3">>

Botocore == <<"b","o","t","o","c","o","r","e">>

GreaterEqual == <<">", "=">>

Unconstrained == [op |-> <<>>, release |-> <<>>]

\* C1: setup() is called at most once, every call carries the name
\* "async-aws-ip-rotator" and the version "1.0.0", and a run that reaches
\* the call has registered exactly one package.
C1_OnePackage ==
  /\ Len(calls) <= 1
  /\ \A i \in 1..Len(calls) :
       calls[i].name = "async-aws-ip-rotator" /\ calls[i].version = "1.0.0"
  /\ pc = "done" => Len(calls) = 1

C1_Witness ==
  /\ pc = "done"
  /\ Len(calls) = 1
  /\ calls[1].name = "async-aws-ip-rotator"

\* C2: the registered dependency list has exactly four entries, httpx>=0.24.0,
\* aioboto3>=11.0.0 and the unconstrained boto3 and botocore; a candidate of
\* httpx is accepted exactly from 0.24.0 on, one of aioboto3 exactly from
\* 11.0.0 on, and every candidate of boto3 and botocore is accepted.
C2_Dependencies ==
  calls # <<>> =>
    LET reqs == calls[1].install_requires
        v == lastCheck.version
    IN /\ Len(reqs) = 4
       /\ ParseRequirement(reqs[1]) =
            [name |-> Httpx, spec |-> [op |-> GreaterEqual, release |-> <<0, 24, 0>>]]
       /\ ParseRequirement(reqs[2]) =
            [name |-> Aioboto3, spec |-> [op |-> GreaterEqual, release |-> <<11, 0, 0>>]]
       /\ ParseRequirement(reqs[3]) = [name |-> Boto3, spec |-> Unconstrained]
       /\ ParseRequirement(reqs[4]) = [name |-> Botocore, spec |-> Unconstrained]
       /\ lastCheck.kind = "dependency" =>
            /\ lastCheck.name = Httpx =>
                 (lastCheck.accepted <=> (v[1] > 0 \/ (v[1] = 0 /\ v[2] >= 24)))
            /\ lastCheck.name = Aioboto3 => (lastCheck.accepted <=> v[1] >= 11)
            /\ lastCheck.name \in {Boto3, Botocore} => lastCheck.accepted

C2_Witness ==
  /\ lastCheck.kind = "dependency"
  /\ lastCheck.name = Httpx
  /\ lastCheck.version = <<0, 9, 1>>
  /\ ~lastCheck.accepted

\* C3 as stated: a runtime 3.x is accepted by the runtime requirement exactly
\* when 7 <= x <= 10.
C3_Original ==
  (lastCheck.kind = "runtime" /\ lastCheck.version[1] = 3) =>
    (lastCheck.accepted <=> (7 <= lastCheck.version[2] /\ lastCheck.version[2] <= 10))

\* C3 as amended: the classifiers name exactly the minor lines 3.7, 3.8, 3.9
\* and 3.10, and a runtime 3.x is accepted by the runtime requirement
\* exactly when x >= 7, with no upper limit.
C3_Amended ==
  calls # <<>> =>
    /\ ClassifiedMinors(calls[1].classifiers) = {7, 8, 9, 10}
    /\ (lastCheck.kind = "runtime" /\ lastCheck.version[1] = 3) =>
         (lastCheck.accepted <=> lastCheck.version[2] >= 7)

C3_Witness ==
  /\ lastCheck.kind = "runtime"
  /\ lastCheck.version = <<3, 11, 0>>
  /\ lastCheck.accepted
  /\ ClassifiedMinors(calls[1].classifiers) = {7, 8, 9, 10}

\* C4 as stated: with the build tool importable, every run ends at the
\* setup() call without an error, whatever the file system holds, and does
\* no I/O of its own.
C4_Original ==
  (setuptoolsAvailable /\ pc \in {"done", "error"}) =>
    /\ pc = "done"
    /\ error = "none"
    /\ Len(calls) = 1
    /\ io = <<>>

\* C4 as amended: the run ends at the setup() call without an error exactly
\* when README.md exists in the script's directory and decodes (and
\* setuptools imports); otherwise it ends in FileNotFoundError or
\* UnicodeDecodeError before setup() is called.  Until it ends it can always
\* take its next step, and its own I/O is the read of that README.md followed
\* by find_packages' scan of the current directory.
C4_Amended ==
  /\ pc = "done" =>
       error = "none" /\ Len(calls) = 1 /\ setuptoolsAvailable /\ ReadmeReadable
  /\ (setuptoolsAvailable /\ pc = "error") =>
       ~ReadmeReadable /\ calls = <<>> /\ error \in ReadErrors
  /\ (setuptoolsAvailable /\ ReadmeReadable) => pc # "error"
  /\ pc \notin {"done", "error"} => ENABLED Next
  /\ \/ io = <<>>
     \/ io = <<[op |-> "read", path |-> ScriptReadme]>>
     \/ io = <<[op |-> "read", path |-> ScriptReadme], [op |-> "scan", path |-> cwd]>>

C4_Witness ==
  /\ pc = "done"
  /\ ReadmeReadable
  /\ Len(io) = 2
  /\ error = "none"

\* C5: setup() is called only after the read of README.md in the script's
\* directory has succeeded; when the read fails the run is over, in an error
\* state, with setup() called zero times.
C5_ReadPrecedesSetup ==
  /\ (pc = "setup" \/ calls # <<>>) =>
       /\ README.ok
       /\ ReadmeReadable
       /\ io # <<>>
       /\ io[1] = [op |-> "read", path |-> ScriptReadme]
  /\ error \in ReadErrors =>
       pc = "error" /\ calls = <<>> /\ ~ENABLED Next

C5_Witness ==
  /\ pc = "error"
  /\ error = "FileNotFoundError"
  /\ ~fs[ScriptReadme].exists
  /\ calls = <<>>

\* C6: every setup() call registers as long_description the text of the
\* README.md of the script's directory, as read_text() returns it, and tags
\* it "text/markdown"; the README.md of the current directory plays no part.
C6_LongDescription ==
  \A i \in 1..Len(calls) :
    /\ calls[i].long_description = ReadText(fs[ScriptReadme], encoding).text
    /\ calls[i].long_description_content_type = "text/markdown"

C6_Witness ==
  /\ calls # <<>>
  /\ cwd # ScriptDir
  /\ fs[Join(cwd, "README.md")].exists
  /\ fs[Join(cwd, "README.md")].bytes # fs[ScriptReadme].bytes
  /\ calls[1].long_description # <<>>
  /\ calls[1].long_description # ReadText(fs[Join(cwd, "README.md")], encoding).text

\* C7: every classified minor version 3.x satisfies python_requires, some
\* runtime that satisfies it is not classified, and every runtime below 3.7
\* is refused.
C7_OneWayConsistency ==
  calls # <<>> =>
    LET classified == ClassifiedMinors(calls[1].classifiers)
        requires == calls[1].python_requires
        v == lastCheck.version
    IN /\ classified # {}
       /\ \A x \in classified : AcceptsRuntime(requires, <<3, x>>)
       /\ \E w \in RuntimeVersions :
            w[1] = 3 /\ w[2] \notin classified /\ AcceptsRuntime(requires, w)
       /\ lastCheck.kind = "runtime" =>
            /\ (v[1] = 3 /\ v[2] \in classified) => lastCheck.accepted
            /\ (v[1] < 3 \/ (v[1] = 3 /\ v[2] < 7)) => ~lastCheck.accepted

C7_Witness ==
  /\ lastCheck.kind = "runtime"
  /\ lastCheck.version[1] = 3
  /\ lastCheck.version[2] \notin ClassifiedMinors(calls[1].classifiers)
  /\ lastCheck.version[2] > 10
  /\ lastCheck.accepted

====
